---------------------------- MODULE Spec2Model ----------------------------
(***************************************************************************)
(* Model of generate_modules_dependencies.py: ModuleAnalyzer resolves the  *)
(* direct dependencies of every kernel module of a directory with a pool   *)
(* of worker threads (modinfo, memoised in deps_cache), assembles the      *)
(* dependency graph, expands it to the transitive closure per module and   *)
(* renders the modules.dep manifest.                                       *)
(*                                                                         *)
(* Python strings are sequences of one-character strings, so that          *)
(* split, strip, sorted and join are computed as Python computes them.     *)
(***************************************************************************)
EXTENDS Integers, Sequences, FiniteSets, TLC

(***************************************************************************)
(* Bounds of the model.                                                    *)
(***************************************************************************)
\* Largest number of .ko files in the module directory of a pipeline run.
MaxModules == 2
\* Largest worker-pool size (--jobs) of a pipeline run.
MaxWorkers == 2
\* Largest number of generate_modules_dep calls on one analyzer.
MaxRuns == 2
\* Number of modules, and largest number of direct-dependency edges, of
\* the graphs the closure specification starts from.
MaxNodes == 3
MaxEdges == 4
\* Largest number of get_direct_dependencies calls a client makes on one
\* analyzer.
MaxCalls == 2

(***************************************************************************)
(* Strings.                                                                *)
(***************************************************************************)
Letters ==
    << "a", "b", "c", "d", "e", "f", "g", "h", "i", "j", "k", "l", "m",
       "n", "o", "p", "q", "r", "s", "t", "u", "v", "w", "x", "y", "z" >>

\* ord(c) for the characters the model uses.
Ord(c) ==
    IF \E i \in 1..Len(Letters) : Letters[i] = c
    THEN 96 + (CHOOSE i \in 1..Len(Letters) : Letters[i] = c)
    ELSE CASE c = "\t" -> 9
           [] c = "\n" -> 10
           [] c = " " -> 32
           [] c = "," -> 44
           [] c = "-" -> 45
           [] c = "." -> 46
           [] c = "/" -> 47
           [] c = ":" -> 58

\* The characters str.strip() removes.
Whitespace == { " ", "\t", "\n" }

SetMin(S) == CHOOSE x \in S : \A y \in S : x <= y
SetMax(S) == CHOOSE x \in S : \A y \in S : y <= x
Range(s) == { s[i] : i \in 1..Len(s) }

\* str.strip()
Strip(s) ==
    LET keep == { i \in 1..Len(s) : s[i] \notin Whitespace }
    IN  IF keep = {} THEN << >> ELSE SubSeq(s, SetMin(keep), SetMax(keep))

\* str.split(sep) for a one-character separator: the pieces between the
\* separators, empty pieces included.
RECURSIVE Split(_, _)
Split(s, sep) ==
    LET at == { i \in 1..Len(s) : s[i] = sep }
    IN  IF at = {} THEN << s >>
        ELSE << SubSeq(s, 1, SetMin(at) - 1) >>
                 \o Split(SubSeq(s, SetMin(at) + 1, Len(s)), sep)

\* str.endswith(suffix)
EndsWith(s, suffix) ==
    /\ Len(s) >= Len(suffix)
    /\ SubSeq(s, Len(s) - Len(suffix) + 1, Len(s)) = suffix

\* sep.join(parts), from the i-th part on.
RECURSIVE JoinFrom(_, _, _)
JoinFrom(sep, parts, i) ==
    IF i > Len(parts) THEN << >>
    ELSE IF i = Len(parts) THEN parts[i]
    ELSE parts[i] \o sep \o JoinFrom(sep, parts, i + 1)

\* sep.join(parts)
Join(sep, parts) == JoinFrom(sep, parts, 1)

\* s < t for Python strings: at the first position where they differ the
\* code point of s is the smaller one, or s is a proper prefix of t.
StrLess(s, t) ==
    \E i \in 1..(Len(t)) :
        /\ i <= Len(s) + 1
        /\ \A j \in 1..(i - 1) : s[j] = t[j]
        /\ \/ i = Len(s) + 1
           \/ Ord(s[i]) < Ord(t[i])

\* sorted(S, reverse=True)
sorted_reversed(S) ==
    [i \in 1..Cardinality(S) |->
        CHOOSE x \in S : Cardinality({ y \in S : StrLess(x, y) }) = i - 1]

\* sorted(S) for a set of strings: the i-th element is the one with i - 1
\* smaller elements.
sorted(S) ==
    [i \in 1..Cardinality(S) |->
        CHOOSE x \in S : Cardinality({ y \in S : StrLess(y, x) }) = i - 1]

Ko == << ".", "k", "o" >>
LibModules == << "/", "l", "i", "b", "/", "m", "o", "d", "u", "l", "e", "s", "/" >>


(***************************************************************************)
(* The environment: the module directory and the answers of modinfo.       *)
(***************************************************************************)
\* Base names the model's module files are drawn from, in the order in
\* which directories grow.
ModulePool == << << "b" >>, << "a" >>, << "a", "b" >>, << "c" >> >>

\* A declared name with no matching file.
Ghost == << "g", "h", "o", "s", "t" >>

\* Directory entries that are no module files.
OtherFiles == { Ghost }

\* The first n base names of the pool.
BaseNames(n) == { ModulePool[i] : i \in 1..n }

\* The listing of a module directory holding n module files.
Directory(n) == { b \o Ko : b \in BaseNames(n) } \cup OtherFiles

\* The base name after b in a directory of n modules, cyclically.
NextBase(b, n) ==
    LET i == CHOOSE j \in 1..n : ModulePool[j] = b
    IN  ModulePool[(i % n) + 1]

\* What one modinfo invocation can answer for module base name b in a
\* directory of n modules: it raises (the tool cannot be started), or it
\* exits with a return code and an output.
Answers(b, n) ==
    LET nl   == << "\n" >>
        nxt  == NextBase(b, n)
        all  == Join(<< "," >>, sorted(BaseNames(n)))
        outs == { nl,
                  nxt \o nl,
                  all \o nl,
                  << " " >> \o nxt \o << " ", ",", " " >> \o Ghost \o << ",", "," >> \o nl,
                  Ghost \o nl }
    IN  { [raises |-> FALSE, returncode |-> 0, stdout |-> o] : o \in outs }
          \cup { [raises |-> FALSE, returncode |-> 1, stdout |-> o] :
                    o \in { << >>, nxt \o nl } }
          \cup { [raises |-> TRUE, returncode |-> 1, stdout |-> << >>] }

VARIABLES
    files,             \* os.listdir(modules_dir)
    modinfo,           \* module -> the answer of `modinfo -F depends`
    max_workers,       \* self.max_workers
    deps_cache,        \* self.deps_cache
    cache_lock,        \* the tasks holding self.cache_lock
    dependency_graph,  \* self.dependency_graph
    task,              \* task -> the state of its future and worker; the tasks
                       \* of build_dependency_graph are named by their module
    invocations,       \* module -> the modinfo invocations made for it
    collected,         \* the futures as_completed has yielded
    pc,                \* where the main thread is
    run,               \* generate_modules_dep calls started so far
    graph_writes,      \* module -> line-60 stores in this build
    todo_modules,      \* what the line-88 loop has still to process
    stack,             \* the frames of get_all_dependencies, innermost last
    visited,           \* the visited set of the running traversal
    expansions,        \* module -> the times the running traversal has
                       \* started the line-73 loop for it
    closures,          \* module -> what its top-level call returned
    output_lines,      \* output_lines
    manifest           \* what generate_modules_dep returned

vars ==
    << files, modinfo, max_workers, deps_cache, cache_lock, dependency_graph,
       task, invocations, collected, pc, run, graph_writes, todo_modules, stack,
       visited, expansions, closures, output_lines, manifest >>

envVars == << files, modinfo, max_workers >>
buildVars ==
    << deps_cache, cache_lock, dependency_graph, task, invocations, collected,
       graph_writes >>
closureVars ==
    << todo_modules, stack, visited, expansions, closures, output_lines, manifest >>

\* get_module_files(): the entries of the directory ending in .ko
get_module_files == { f \in files : EndsWith(f, Ko) }

\* A resolver that does not look for the file of a declared name.
path_exists_unchecked(name) == TRUE

\* os.path.exists(os.path.join(self.modules_dir, name))
path_exists(name) == name \in files

\* Lines 31-36: the dependency set parsed from modinfo's output.
parse_depends(stdout) ==
    IF Strip(stdout) = << >> THEN {}
    ELSE { Strip(dep) \o Ko :
             dep \in { d \in Range(Split(stdout, ",")) :
                         /\ Strip(d) # << >>
                         /\ path_exists(Strip(d) \o Ko) } }

\* A graph in which a missing key reads as the set of all keys.
graph_get_missing_all(g, module) == IF module \in DOMAIN g THEN g[module] ELSE DOMAIN g

\* dict lookup on the defaultdict(set): a missing key reads as set().
graph_get(g, module) == IF module \in DOMAIN g THEN g[module] ELSE {}

\* The defaultdict after a lookup of module: a missing key is inserted.
graph_touch(g, module) == IF module \in DOMAIN g THEN g ELSE g @@ (module :> {})

\* d[k] = v on a dict.
dict_set(d, k, v) == [x \in DOMAIN d \cup {k} |-> IF x = k THEN v ELSE d[x]]

\* The base name of a module file: its name without the .ko
BaseOf(module) == SubSeq(module, 1, Len(module) - Len(Ko))

(***************************************************************************)
(* Initial state: a freshly constructed ModuleAnalyzer (lines 11-16) on a  *)
(* directory of 1..MaxModules modules.                                     *)
(***************************************************************************)
NoTasks(modules) == [m \in modules |-> [module |-> m, pc |-> "none", deps |-> {}]]

Init ==
    /\ \E n \in 1..MaxModules :
         /\ files = Directory(n)
         /\ modinfo \in [{ b \o Ko : b \in BaseNames(n) } ->
                            UNION { Answers(b, n) : b \in BaseNames(n) }]
         /\ \A m \in DOMAIN modinfo : modinfo[m] \in Answers(BaseOf(m), n)
    /\ max_workers \in 1..MaxWorkers
    /\ deps_cache = << >>
    /\ cache_lock = {}
    /\ dependency_graph = << >>
    /\ task = NoTasks(get_module_files)
    /\ invocations = [m \in get_module_files |-> 0]
    /\ collected = {}
    /\ pc = "idle"
    /\ run = 0
    /\ graph_writes = [m \in get_module_files |-> 0]
    /\ todo_modules = << >>
    /\ stack = << >>
    /\ visited = {}
    /\ expansions = << >>
    /\ closures = << >>
    /\ output_lines = << >>
    /\ manifest = << >>

(***************************************************************************)
(* generate_modules_dep, lines 80-83, and build_dependency_graph, lines    *)
(* 47-55: list the directory and submit one get_direct_dependencies task   *)
(* per module to the executor.                                             *)
(***************************************************************************)
Generate ==
    /\ pc \in { "idle", "done" }
    /\ run < MaxRuns
    /\ run' = run + 1
    /\ task' = [m \in get_module_files |-> [module |-> m, pc |-> "queued", deps |-> {}]]
    /\ collected' = {}
    /\ graph_writes' = [m \in get_module_files |-> 0]
    /\ pc' = "collect"
    /\ UNCHANGED << envVars, deps_cache, cache_lock, dependency_graph, invocations,
                    closureVars >>

(***************************************************************************)
(* A worker thread running get_direct_dependencies(module), lines 22-45.   *)
(* The actions take the task m the thread runs; task[m].module is the      *)
(* module the call was made for.                                           *)
(***************************************************************************)
\* A pool is running tasks: the executor of build_dependency_graph, or the
\* pool of a client that calls get_direct_dependencies itself.
ExecutorAlive == pc \in { "collect", "unwind", "pool" }

\* The tasks a worker thread is running.
Running == { m \in DOMAIN task : task[m].pc \in { "invoke", "lock", "write" } }

\* The pool has a thread free for one more task.
WorkerFree == Cardinality(Running) < max_workers

\* A resolver that never finds a module in the cache.
cached_never(module) == FALSE

\* Line 24: module in self.deps_cache
cached(module) == module \in DOMAIN deps_cache

\* A hit that answers with an empty set.
cache_read_empty(module) == {}

\* Line 25: self.deps_cache[module]
cache_read(module) == deps_cache[module]

\* Lines 24-25: the module is cached, the task returns the cached set.
CacheHit(m) ==
    /\ ExecutorAlive
    /\ task[m].pc = "queued"
    /\ WorkerFree
    /\ cached(task[m].module)
    /\ task' = [task EXCEPT ![m].pc = "done", ![m].deps = cache_read(task[m].module)]
    /\ UNCHANGED << envVars, deps_cache, cache_lock, dependency_graph, invocations,
                    collected, pc, run, graph_writes, closureVars >>

\* Line 24 misses the cache: the task goes on to run modinfo.
CacheMiss(m) ==
    /\ ExecutorAlive
    /\ task[m].pc = "queued"
    /\ WorkerFree
    /\ ~cached(task[m].module)
    /\ task' = [task EXCEPT ![m].pc = "invoke"]
    /\ UNCHANGED << envVars, deps_cache, cache_lock, dependency_graph, invocations,
                    collected, pc, run, graph_writes, closureVars >>

\* Line 29: one more modinfo process was run for the module.
invoked(count, module) == [count EXCEPT ![module] = @ + 1]

\* Lines 29-36: subprocess.run returns a CompletedProcess (check is not
\* set, so a non-zero return code raises nothing) and its stdout is parsed.
InvokeReturns(m) ==
    /\ task[m].pc = "invoke"
    /\ ~modinfo[task[m].module].raises
    /\ invocations' = invoked(invocations, task[m].module)
    /\ task' = [task EXCEPT ![m].pc = "lock",
                            ![m].deps = parse_depends(modinfo[task[m].module].stdout)]
    /\ UNCHANGED << envVars, deps_cache, cache_lock, dependency_graph, collected,
                    pc, run, graph_writes, closureVars >>

\* Line 29: subprocess.run raises (FileNotFoundError when modinfo is not
\* installed). Line 42 catches CalledProcessError only, so the exception
\* leaves get_direct_dependencies and is stored in the future.
InvokeRaises(m) ==
    /\ task[m].pc = "invoke"
    /\ modinfo[task[m].module].raises
    /\ invocations' = invoked(invocations, task[m].module)
    /\ task' = [task EXCEPT ![m].pc = "raised"]
    /\ UNCHANGED << envVars, deps_cache, cache_lock, dependency_graph, collected,
                    pc, run, graph_writes, closureVars >>

\* A lock that every thread can take at any time.
lock_free_always(holders) == TRUE

\* threading.Lock: the lock can be taken when no thread holds it.
lock_free(holders) == holders = {}

\* Line 38: with self.cache_lock
Acquire(m) ==
    /\ task[m].pc = "lock"
    /\ lock_free(cache_lock)
    /\ cache_lock' = cache_lock \cup {m}
    /\ task' = [task EXCEPT ![m].pc = "write"]
    /\ UNCHANGED << envVars, deps_cache, dependency_graph, invocations, collected,
                    pc, run, graph_writes, closureVars >>

\* A resolver that returns its result without caching it.
cache_store_skips(cache, module, deps) == cache

\* Line 39: self.deps_cache[module] = deps
cache_store(cache, module, deps) == dict_set(cache, module, deps)

\* Lines 39-40: store the set in the cache, release the lock, return it.
Store(m) ==
    /\ task[m].pc = "write"
    /\ deps_cache' = cache_store(deps_cache, task[m].module, task[m].deps)
    /\ cache_lock' = cache_lock \ {m}
    /\ task' = [task EXCEPT ![m].pc = "done"]
    /\ UNCHANGED << envVars, dependency_graph, invocations, collected,
                    pc, run, graph_writes, closureVars >>

(***************************************************************************)
(* build_dependency_graph, lines 57-60: the main thread takes the futures  *)
(* as they complete.                                                       *)
(***************************************************************************)
Finished(m) == task[m].pc \in { "done", "raised" }

\* A builder that takes the result of a task still running.
future_started(m) == task[m].pc \notin { "queued", "raised" }

\* The future of module m has completed with a return value, so
\* as_completed can yield it and line 59 returns its result.
future_returned(m) == task[m].pc = "done"

\* A builder that rebinds the graph to the entry it stores.
store_result_rebinds(g, module, direct_deps) == (module :> direct_deps)

\* Line 60: self.dependency_graph[module] = direct_deps
store_result(g, module, direct_deps) == dict_set(g, module, direct_deps)

\* Lines 57-60 for a future that returned.
Collect(m) ==
    /\ pc = "collect"
    /\ m \notin collected
    /\ future_returned(m)
    /\ collected' = collected \cup {m}
    /\ dependency_graph' = store_result(dependency_graph, task[m].module, task[m].deps)
    /\ graph_writes' = [graph_writes EXCEPT ![task[m].module] = @ + 1]
    /\ UNCHANGED << envVars, deps_cache, cache_lock, task, invocations, pc, run,
                    closureVars >>

\* Line 59 for a future that holds an exception: future.result() raises it
\* and it leaves the loop.
CollectRaised(m) ==
    /\ pc = "collect"
    /\ m \notin collected
    /\ task[m].pc = "raised"
    /\ pc' = "unwind"
    /\ UNCHANGED << envVars, buildVars, run, closureVars >>

\* Line 51, leaving the with block on an exception: the executor waits
\* for every task, then the exception leaves build_dependency_graph and
\* generate_modules_dep.
Unwind ==
    /\ pc = "unwind"
    /\ \A m \in DOMAIN task : Finished(m)
    /\ pc' = "failed"
    /\ UNCHANGED << envVars, buildVars, run, closureVars >>

\* A builder that stops at the first completed future.
build_complete_first == collected # {}

\* as_completed is exhausted: every future has been yielded.
build_complete == collected = DOMAIN task

\* Lines 57 and 51: the loop ends, the executor shuts down and
\* build_dependency_graph returns; lines 85-88 start the serialization.
BuildReturn ==
    /\ pc = "collect"
    /\ build_complete
    /\ \A m \in DOMAIN task : Finished(m)
    /\ pc' = "serialize"
    /\ todo_modules' = sorted(get_module_files)
    /\ output_lines' = << >>
    /\ closures' = << >>
    /\ stack' = << >>
    /\ visited' = {}
    /\ expansions' = << >>
    /\ UNCHANGED << envVars, buildVars, run, manifest >>

(***************************************************************************)
(* get_all_dependencies, lines 62-78, as the frames of its recursion.  A   *)
(* frame holds the module of the call, its all_deps and what the line-73   *)
(* loop has still to iterate; a set is iterated in no particular order.    *)
(***************************************************************************)
\* Line 71: all_deps starts as a copy of the module's direct dependencies.
initial_all_deps(g, module) == graph_get(g, module)

\* A traversal that does not record the modules it enters.
mark_visited_forgets(seen, module) == seen

\* A traversal that remembers only the module it entered last.
mark_visited_last(seen, module) == {module}

\* Line 70: visited.add(module)
mark_visited(seen, module) == seen \cup {module}

\* A top-level call that goes on with the visited set of the call before.
seed_visited_keeps(module) == mark_visited(visited, module)

\* Lines 64-65 and 70 of a top-level call: a fresh visited set, with the
\* module added.
seed_visited(module) == mark_visited({}, module)

\* Lines 71-73: the call for module has passed line 67 and starts its loop
\* over the module's direct dependencies.
expanded(count, module) ==
    IF module \in DOMAIN count
    THEN [count EXCEPT ![module] = @ + 1]
    ELSE count @@ (module :> 1)

\* Line 74: the loop recurses into the dependencies not yet visited.
should_recurse(dep, seen) == dep \notin seen

\* Line 73: what the loop has still to iterate once it has taken dep.
iter_rest(iter, dep) == iter \ {dep}

\* Line 76: all_deps.update(indirect_deps)
update(all_deps, indirect_deps) == all_deps \cup indirect_deps

\* Lines 70-73: the frame of a call that passed line 67.
Frame(g, module) ==
    [module   |-> module,
     all_deps |-> initial_all_deps(g, module),
     iter     |-> graph_get(g, module)]

Top == stack[Len(stack)]

\* Line 89: the top-level call for the next module of the sorted listing.
\* Its visited set is empty, so line 67 lets it pass.
CanCallTop ==
    /\ pc = "serialize"
    /\ stack = << >>
    /\ todo_modules # << >>

CallTop ==
    /\ CanCallTop
    /\ LET module == Head(todo_modules)
       IN  /\ visited' = seed_visited(module)
           /\ dependency_graph' = graph_touch(dependency_graph, module)
           /\ stack' = << Frame(dependency_graph, module) >>
           /\ expansions' = expanded(<< >>, module)
    /\ UNCHANGED << envVars, deps_cache, cache_lock, task, invocations, collected,
                    pc, run, graph_writes, todo_modules, closures, output_lines,
                    manifest >>

\* Lines 73-75 for a dependency that line 74 lets through: the recursive
\* call.  At line 67 a visited module returns set() at once, which line 76
\* adds to all_deps; any other is marked visited and starts its own loop.
CanRecurse(dep) ==
    /\ pc = "serialize"
    /\ stack # << >>
    /\ dep \in Top.iter
    /\ should_recurse(dep, visited)

Recurse(dep) ==
    /\ CanRecurse(dep)
    /\ IF dep \in visited
       THEN /\ stack' = [stack EXCEPT ![Len(stack)].iter = iter_rest(@, dep)]
            /\ UNCHANGED << visited, dependency_graph, expansions >>
       ELSE /\ visited' = mark_visited(visited, dep)
            /\ dependency_graph' = graph_touch(dependency_graph, dep)
            /\ stack' = [stack EXCEPT ![Len(stack)].iter = iter_rest(@, dep)]
                           \o << Frame(dependency_graph, dep) >>
            /\ expansions' = expanded(expansions, dep)
    /\ UNCHANGED << envVars, deps_cache, cache_lock, task, invocations, collected,
                    pc, run, graph_writes, todo_modules, closures, output_lines,
                    manifest >>

\* Lines 73-74 for a dependency already visited: the loop goes on.
CanSkip(dep) ==
    /\ pc = "serialize"
    /\ stack # << >>
    /\ dep \in Top.iter
    /\ ~should_recurse(dep, visited)

Skip(dep) ==
    /\ CanSkip(dep)
    /\ stack' = [stack EXCEPT ![Len(stack)].iter = iter_rest(@, dep)]
    /\ UNCHANGED << envVars, buildVars, pc, run, todo_modules, visited,
                    expansions, closures, output_lines, manifest >>

\* Lines 78 and 75-76: a recursive call returns its all_deps, which the
\* caller adds to its own.
CanReturnInner ==
    /\ pc = "serialize"
    /\ Len(stack) > 1
    /\ Top.iter = {}

ReturnInner ==
    /\ CanReturnInner
    /\ stack' = [SubSeq(stack, 1, Len(stack) - 1) EXCEPT
                    ![Len(stack) - 1].all_deps = update(@, Top.all_deps)]
    /\ UNCHANGED << envVars, buildVars, pc, run, todo_modules, visited,
                    expansions, closures, output_lines, manifest >>

\* A serializer without the branch of line 95 for an empty closure.
format_line_always_space(module, deps) ==
    LET srt == sorted(deps)
        dep_paths == [i \in 1..Len(srt) |-> LibModules \o srt[i]]
    IN  LibModules \o module \o << ":", " " >> \o Join(<< " " >>, dep_paths)

\* Lines 90-95: the manifest line of a module.
format_line(module, deps) ==
    IF deps # {}
    THEN LET srt == sorted(deps)
             dep_paths == [i \in 1..Len(srt) |-> LibModules \o srt[i]]
         IN  LibModules \o module \o << ":", " " >> \o Join(<< " " >>, dep_paths)
    ELSE LibModules \o module \o << ":" >>

\* Lines 78 and 89-95: the top-level call returns and the module's line is
\* appended to output_lines.
CanReturnTop ==
    /\ pc = "serialize"
    /\ Len(stack) = 1
    /\ Top.iter = {}

ReturnTop ==
    /\ CanReturnTop
    /\ closures' = dict_set(closures, Top.module, Top.all_deps)
    /\ output_lines' = Append(output_lines, format_line(Top.module, Top.all_deps))
    /\ todo_modules' = Tail(todo_modules)
    /\ stack' = << >>
    /\ UNCHANGED << envVars, buildVars, pc, run, visited, expansions, manifest >>

\* Line 97: "\n".join(output_lines)
join_lines(lines) == Join(<< "\n" >>, lines)

\* Lines 88 and 97: the loop is over and the manifest is returned.
CanFinish ==
    /\ pc = "serialize"
    /\ stack = << >>
    /\ todo_modules = << >>

Finish ==
    /\ CanFinish
    /\ manifest' = join_lines(output_lines)
    /\ pc' = "done"
    /\ UNCHANGED << envVars, buildVars, run, todo_modules, stack, visited,
                    expansions, closures, output_lines >>

(***************************************************************************)
(* The pipeline: every thread of one analyzer.                             *)
(***************************************************************************)
Worker ==
    \/ \E m \in DOMAIN task : CacheHit(m)
    \/ \E m \in DOMAIN task : CacheMiss(m)
    \/ \E m \in DOMAIN task : InvokeReturns(m)
    \/ \E m \in DOMAIN task : InvokeRaises(m)
    \/ \E m \in DOMAIN task : Acquire(m)
    \/ \E m \in DOMAIN task : Store(m)

Builder ==
    \/ Generate
    \/ \E m \in DOMAIN task : Collect(m)
    \/ \E m \in DOMAIN task : CollectRaised(m)
    \/ Unwind
    \/ BuildReturn

Serializer ==
    \/ CallTop
    \/ \E dep \in UNION { dependency_graph[m] : m \in DOMAIN dependency_graph } : Recurse(dep)
    \/ \E dep \in UNION { dependency_graph[m] : m \in DOMAIN dependency_graph } : Skip(dep)
    \/ ReturnInner
    \/ ReturnTop
    \/ Finish

Next == Worker \/ Builder \/ Serializer

Spec == Init /\ [][Next]_vars

\* Every thread that can take a step eventually takes one: the operating
\* system schedules each runnable thread.
FairSpec == Spec /\ WF_vars(Worker) /\ WF_vars(Builder) /\ WF_vars(Serializer)

(***************************************************************************)
(* The closure and serialization alone, from the state in which            *)
(* build_dependency_graph has just returned a graph over MaxNodes modules  *)
(* with at most MaxEdges direct-dependency edges.  Every such graph is the *)
(* result of a build: module m's modinfo declares the base names of        *)
(* graph[m].                                                               *)
(***************************************************************************)
Declares(deps) ==
    [raises |-> FALSE, returncode |-> 0,
     stdout |-> Join(<< "," >>, sorted({ BaseOf(d) : d \in deps })) \o << "\n" >>]

GraphOf(modules, edges) ==
    [m \in modules |-> { d \in modules : << m, d >> \in edges }]

InitClosure ==
    /\ files = Directory(MaxNodes)
    /\ \E edges \in SUBSET (get_module_files \X get_module_files) :
         /\ Cardinality(edges) <= MaxEdges
         /\ dependency_graph = GraphOf(get_module_files, edges)
    /\ deps_cache = dependency_graph
    /\ modinfo = [m \in get_module_files |-> Declares(dependency_graph[m])]
    /\ task = [m \in get_module_files |->
                 [module |-> m, pc |-> "done", deps |-> dependency_graph[m]]]
    /\ invocations = [m \in get_module_files |-> 1]
    /\ max_workers = 1
    /\ cache_lock = {}
    /\ collected = get_module_files
    /\ pc = "serialize"
    /\ run = 1
    /\ graph_writes = [m \in get_module_files |-> 1]
    /\ todo_modules = sorted(get_module_files)
    /\ stack = << >>
    /\ visited = {}
    /\ expansions = << >>
    /\ closures = << >>
    /\ output_lines = << >>
    /\ manifest = << >>

SpecClosure == InitClosure /\ [][Serializer]_vars

\* The main thread keeps running.
FairSpecClosure == SpecClosure /\ WF_vars(Serializer)

(***************************************************************************)
(* The closure and serialization when a module file appeared in the        *)
(* directory while build_dependency_graph ran: line 49 listed the          *)
(* directory without it, so the graph has no entry for it; the resolvers   *)
(* that ran line 35 after it appeared found it, so it can be in the        *)
(* direct-dependency sets; and line 88 lists it.                           *)
(***************************************************************************)
LateFile == ModulePool[MaxNodes] \o Ko

InitLateFile ==
    /\ files = Directory(MaxNodes)
    /\ \E edges \in SUBSET ((get_module_files \ {LateFile}) \X get_module_files) :
         /\ Cardinality(edges) <= MaxEdges
         /\ dependency_graph =
               [m \in get_module_files \ {LateFile} |->
                   { d \in get_module_files : << m, d >> \in edges }]
    /\ deps_cache = dependency_graph
    /\ modinfo = [m \in get_module_files |->
                    Declares(graph_get(dependency_graph, m))]
    /\ task = [m \in DOMAIN dependency_graph |->
                 [module |-> m, pc |-> "done", deps |-> dependency_graph[m]]]
    /\ invocations = [m \in DOMAIN dependency_graph |-> 1]
    /\ max_workers = 1
    /\ cache_lock = {}
    /\ collected = DOMAIN dependency_graph
    /\ pc = "serialize"
    /\ run = 1
    /\ graph_writes = [m \in DOMAIN dependency_graph |-> 1]
    /\ todo_modules = sorted(get_module_files)
    /\ stack = << >>
    /\ visited = {}
    /\ expansions = << >>
    /\ closures = << >>
    /\ output_lines = << >>
    /\ manifest = << >>

SpecLateFile == InitLateFile /\ [][Serializer]_vars

(***************************************************************************)
(* get_direct_dependencies alone: the threads of a pool run the calls that *)
(* a client makes on a fresh analyzer, for any modules of the directory    *)
(* and any number of times for the same module.                            *)
(***************************************************************************)
\* The modinfo answers of this specification: the invocation raises, or it
\* declares the next module and exits with 0 or with 1.
ResolverAnswers(b, n) ==
    { a \in Answers(b, n) : a.raises \/ a.stdout = NextBase(b, n) \o << "\n" >> }

InitResolver ==
    /\ \E n \in 1..MaxModules :
         /\ files = Directory(n)
         /\ modinfo \in [{ b \o Ko : b \in BaseNames(n) } ->
                            UNION { ResolverAnswers(b, n) : b \in BaseNames(n) }]
         /\ \A m \in DOMAIN modinfo : modinfo[m] \in ResolverAnswers(BaseOf(m), n)
    /\ max_workers \in 1..MaxWorkers
    /\ deps_cache = << >>
    /\ cache_lock = {}
    /\ dependency_graph = << >>
    /\ task = << >>
    /\ invocations = [m \in get_module_files |-> 0]
    /\ collected = {}
    /\ pc = "pool"
    /\ run = 0
    /\ graph_writes = [m \in get_module_files |-> 0]
    /\ todo_modules = << >>
    /\ stack = << >>
    /\ visited = {}
    /\ expansions = << >>
    /\ closures = << >>
    /\ output_lines = << >>
    /\ manifest = << >>

\* Lines 22 and 53: a client hands one more get_direct_dependencies(module)
\* call to the pool; the calls are numbered in the order they are made.
Call(module) ==
    /\ pc = "pool"
    /\ Cardinality(DOMAIN task) < MaxCalls
    /\ task' = task @@ ((Cardinality(DOMAIN task) + 1) :>
                           [module |-> module, pc |-> "queued", deps |-> {}])
    /\ UNCHANGED << envVars, deps_cache, cache_lock, dependency_graph, invocations,
                    collected, pc, run, graph_writes, closureVars >>

Client == \E module \in get_module_files : Call(module)

NextResolver == Client \/ Worker

SpecResolver == InitResolver /\ [][NextResolver]_vars

(***************************************************************************)
(* Properties.                                                             *)
(***************************************************************************)
\* The identifiers reachable from the set S by zero or more edges of g.
RECURSIVE ReachFrom(_, _)
ReachFrom(g, S) ==
    LET T == S \cup UNION { graph_get(g, x) : x \in S }
    IN  IF T = S THEN S ELSE ReachFrom(g, T)

\* The identifiers reachable from module by one or more edges of g.
Reachable(g, module) == ReachFrom(g, graph_get(g, module))

\* The module a manifest line is for and the dependencies it lists.
LineTokens(line) == Split(line, " ")
LineModule(line) ==
    LET head == LineTokens(line)[1]
    IN  SubSeq(head, Len(LibModules) + 1, Len(head) - 1)
LineDeps(line) ==
    LET toks == LineTokens(line)
    IN  [i \in 1..(Len(toks) - 1) |->
            SubSeq(toks[i + 1], Len(LibModules) + 1, Len(toks[i + 1]))]

\* A module lies on a dependency cycle of the graph.
OnCycle(g, module) == module \in Reachable(g, module)

\* C1: the closure a top-level get_all_dependencies(M) returns never
\* contains M, and no manifest line lists its own module among its
\* dependencies.
C1_NoSelfInClosure ==
    /\ \A m \in DOMAIN closures : m \notin closures[m]
    /\ \A i \in 1..Len(output_lines) :
          LineModule(output_lines[i]) \notin Range(LineDeps(output_lines[i]))

\* C2: the set a top-level get_all_dependencies(M) returns is the set of
\* identifiers reachable from M by one or more direct-dependency edges,
\* minus M, restricted to the identifiers with an entry in the graph.
C2_ClosureIsReachableSet ==
    \A m \in DOMAIN closures :
        closures[m] = (Reachable(dependency_graph, m) \ {m}) \cap DOMAIN dependency_graph

\* The identifiers of the graph: its keys and every dependency in it.
GraphNodes(g) == DOMAIN g \cup UNION { g[m] : m \in DOMAIN g }

\* What the modules of S can still cost a traversal: one call each and one
\* loop iteration per direct dependency.
NodeWork(S) ==
    Cardinality(S)
      + Cardinality({ e \in S \X GraphNodes(dependency_graph) :
                        e[2] \in graph_get(dependency_graph, e[1]) })

\* The loop iterations the frames on the stack have still to make.
IterLeft ==
    Cardinality({ e \in (1..Len(stack)) \X GraphNodes(dependency_graph) :
                    e[2] \in stack[e[1]].iter })

\* A bound on the steps of one top-level call, and the steps the running
\* top-level call can still take.
CallBound == 3 + NodeWork(GraphNodes(dependency_graph))
CallLeft ==
    1 + Len(stack) + IterLeft + NodeWork(GraphNodes(dependency_graph) \ visited)

\* The steps generate_modules_dep can still take before it returns.
StepsLeft ==
    IF pc # "serialize" THEN 0
    ELSE IF stack = << >> THEN 1 + Len(todo_modules) * CallBound
    ELSE 1 + (Len(todo_modules) - 1) * CallBound + CallLeft

\* Some step of the traversal or of the serialization loop can be taken:
\* the guards of the actions of Serializer, whose assignments are total.
SerializerCanStep ==
    \/ CanCallTop
    \/ \E dep \in GraphNodes(dependency_graph) : CanRecurse(dep) \/ CanSkip(dep)
    \/ CanReturnInner
    \/ CanReturnTop
    \/ CanFinish

\* C3: every top-level get_all_dependencies call returns and the
\* serialization loop finishes with the manifest returned: every step of
\* the traversal and of the loop lowers the natural number StepsLeft (the
\* visited set grows and the graph is finite), and until the manifest is
\* returned a further step is always possible.
C3_Terminates ==
    /\ [][StepsLeft' < StepsLeft]_vars
    /\ [](StepsLeft >= 0)
    /\ [](pc = "serialize" => SerializerCanStep)

\* The manifest has been returned for a graph with a self-referential
\* module and a longer cycle.
C3_Witness ==
    /\ pc = "done"
    /\ \E m \in DOMAIN dependency_graph : m \in dependency_graph[m]
    /\ \E m \in DOMAIN dependency_graph :
          /\ m \notin dependency_graph[m]
          /\ OnCycle(dependency_graph, m)

\* The modinfo invocation for module m fails: it raises or exits non-zero.
LookupFails(m) == modinfo[m].raises \/ modinfo[m].returncode # 0

\* The lines of the manifest text.
ManifestLines == IF manifest = << >> THEN << >> ELSE Split(manifest, "\n")

\* C4: a failing modinfo invocation for a module m is never surfaced:
\* build_dependency_graph completes with an entry for every module, m's
\* entry is empty, the other entries are what their modinfo output
\* declares, and the manifest has the line '/lib/modules/m:'.
C4_FailureNotSurfaced ==
    /\ pc \notin { "unwind", "failed" }
    /\ pc \in { "serialize", "done" } =>
          /\ DOMAIN dependency_graph = get_module_files
          /\ \A m \in get_module_files :
                dependency_graph[m] =
                    IF LookupFails(m) THEN {} ELSE parse_depends(modinfo[m].stdout)
    /\ pc = "done" =>
          \A m \in get_module_files :
              LookupFails(m) => (LibModules \o m \o << ":" >>) \in Range(ManifestLines)

\* The modinfo invocation for module m runs and reports failure by its
\* return code.
ReportsFailure(m) == ~modinfo[m].raises /\ modinfo[m].returncode # 0

\* C5: when the modinfo invocation for a module reports failure, the
\* finished get_direct_dependencies call has returned the empty set,
\* whatever the invocation printed, and has cached the empty set for the
\* module.
C5_FailedLookupIsEmpty ==
    \A m \in DOMAIN task :
        (ReportsFailure(m) /\ task[m].pc \in { "done", "raised" }) =>
            /\ task[m].pc = "done"
            /\ task[m].deps = {}
            /\ m \in DOMAIN deps_cache
            /\ deps_cache[m] = {}

\* build_dependency_graph has returned in the running generate_modules_dep.
BuildReturned == pc \in { "serialize", "done" }

\* C6: once build_dependency_graph has returned, the keys of the graph are
\* exactly the discovered modules and each entry was stored once in this
\* build; and no step ever removes a key of the graph.
C6_GraphKeysExact ==
    /\ [](BuildReturned =>
            /\ DOMAIN dependency_graph = get_module_files
            /\ \A m \in get_module_files : graph_writes[m] = 1)
    /\ [][DOMAIN dependency_graph \subseteq DOMAIN dependency_graph']_vars

\* A build over two modules with two workers has returned.
C6_Witness ==
    /\ pc = "serialize"
    /\ max_workers = 2
    /\ Cardinality(DOMAIN dependency_graph) = 2
    /\ \E m \in DOMAIN dependency_graph : dependency_graph[m] # {}

\* C7: while get_all_dependencies runs, every resolver task of this
\* generate_modules_dep call has completed and its result is in the graph.
C7_ClosureAfterBuild ==
    (stack # << >>) =>
        \A m \in DOMAIN task :
            /\ task[m].pc = "done"
            /\ graph_writes[m] >= 1
            /\ m \in DOMAIN dependency_graph
            /\ dependency_graph[m] = task[m].deps

\* A traversal is running after a build with two workers in which the
\* modinfo of both modules was invoked.
C7_Witness ==
    /\ Len(stack) = 2
    /\ max_workers = 2
    /\ run = 1
    /\ Cardinality(DOMAIN task) = 2

\* The graph and the manifest as the directory and the modinfo answers
\* alone determine them.
ExpectedGraph == [m \in get_module_files |-> parse_depends(modinfo[m].stdout)]
ExpectedManifest ==
    LET srt == sorted(get_module_files)
    IN  join_lines([i \in 1..Len(srt) |->
                       format_line(srt[i], Reachable(ExpectedGraph, srt[i]))])

\* C8: the manifest generate_modules_dep returns is determined by the
\* directory and the modinfo answers alone, whatever the pool size and the
\* interleaving of the tasks; and so is whether it returns one at all.
C8_ManifestIndependentOfSchedule ==
    /\ pc = "done" => manifest = ExpectedManifest
    /\ pc = "done" => \A m \in get_module_files : ~modinfo[m].raises
    /\ pc = "failed" => \E m \in get_module_files : modinfo[m].raises

\* A manifest with a dependency on it was returned after a build with two
\* workers.
C8_Witness ==
    /\ pc = "done"
    /\ max_workers = 2
    /\ Len(ManifestLines) = 2
    /\ \E i \in 1..Len(ManifestLines) : Len(LineDeps(ManifestLines[i])) >= 1

\* s is strictly increasing in the order of Python strings.
StrictlyIncreasing(s) == \A i \in 1..(Len(s) - 1) : StrLess(s[i], s[i + 1])

\* C9: the lines of the manifest are in strictly increasing order of
\* module identifier, and the dependencies of every line are in strictly
\* increasing order.
C9_ManifestSorted ==
    /\ StrictlyIncreasing([i \in 1..Len(output_lines) |-> LineModule(output_lines[i])])
    /\ \A i \in 1..Len(output_lines) : StrictlyIncreasing(LineDeps(output_lines[i]))
    /\ pc = "done" =>
          /\ StrictlyIncreasing([i \in 1..Len(ManifestLines) |-> LineModule(ManifestLines[i])])
          /\ \A i \in 1..Len(ManifestLines) : StrictlyIncreasing(LineDeps(ManifestLines[i]))

\* A manifest of three lines was returned, one of them with three
\* dependencies.
C9_Witness ==
    /\ pc = "done"
    /\ Len(ManifestLines) = 3
    /\ \E i \in 1..Len(ManifestLines) : Len(LineDeps(ManifestLines[i])) = 3

\* The names module m's modinfo output declares: the comma-separated
\* pieces, trimmed, the empty ones left out.
DeclaredNames(m) ==
    { Strip(t) : t \in Range(Split(modinfo[m].stdout, ",")) } \ { << >> }

\* Every direct-dependency set the analyzer holds for module m.
DirectSets(m) ==
    { task[m].deps }
      \cup (IF m \in DOMAIN deps_cache THEN { deps_cache[m] } ELSE {})
      \cup (IF m \in DOMAIN dependency_graph THEN { dependency_graph[m] } ELSE {})

\* C10: every identifier in a direct-dependency set of module m is a
\* trimmed, non-empty name declared by m's modinfo output with .ko
\* appended, and its file exists; and every dependency on a manifest line
\* is the path of an existing module file.  So a declared name without a
\* file is in no direct-dependency set and on no line.
C10_OnlyExistingModules ==
    /\ \A m \in DOMAIN task : \A deps \in DirectSets(m) : \A d \in deps :
          /\ d \in files
          /\ \E name \in DeclaredNames(m) : d = name \o Ko
    /\ \A i \in 1..Len(output_lines) : \A d \in Range(LineDeps(output_lines[i])) :
          d \in files
    /\ \A i \in 1..Len(ManifestLines) : \A d \in Range(LineDeps(ManifestLines[i])) :
          d \in files

\* A module whose modinfo declares only 'ghost', with no ghost.ko in the
\* directory, got the line '/lib/modules/<module>:'; another module, which
\* declares 'ghost' beside an existing module, lists that module alone.
C10_Witness ==
    /\ pc = "done"
    /\ \E m \in get_module_files :
          /\ modinfo[m].stdout = Ghost \o << "\n" >>
          /\ (LibModules \o m \o << ":" >>) \in Range(ManifestLines)
    /\ \E m \in get_module_files :
          /\ Ghost \in DeclaredNames(m)
          /\ Cardinality(dependency_graph[m]) = 1

\* The calls made for module that have passed the cache check of line 24,
\* and those of them that raised.
StartedCalls(module) ==
    { t \in DOMAIN task : task[t].module = module /\ task[t].pc \notin { "none", "queued" } }
RaisedCalls(module) ==
    { t \in DOMAIN task : task[t].module = module /\ task[t].pc = "raised" }

\* C11 as claimed, for the modules whose modinfo invocation returns:
\* whatever the interleaving of the get_direct_dependencies calls, modinfo
\* is invoked at most once per module.
C11_InvokedAtMostOnce ==
    \A m \in DOMAIN invocations : ~modinfo[m].raises => invocations[m] <= 1

\* C11, amended: a call that reaches line 24 once the module's entry is in
\* the cache is answered with that entry and invokes nothing; modinfo is
\* invoked at most once per call that passed line 24; and when the calls
\* run one at a time it is invoked at most once per module, plus once for
\* every call in which it raised (which caches nothing).
C11_CachedCallsDoNotInvoke ==
    /\ [][\A t \in DOMAIN task :
            (task[t].pc = "queued" /\ task[t].module \in DOMAIN deps_cache) =>
                /\ t \in DOMAIN task'
                /\ \/ task'[t] = task[t]
                   \/ /\ task'[t].pc = "done"
                      /\ task'[t].deps = deps_cache[task[t].module]
                      /\ invocations' = invocations]_vars
    /\ [](\A m \in DOMAIN invocations :
            /\ invocations[m] <= Cardinality(StartedCalls(m))
            /\ max_workers = 1 => invocations[m] <= 1 + Cardinality(RaisedCalls(m)))

\* Two calls were made for one module: the first ran modinfo and cached a
\* dependency, the second was answered from the cache.
C11_Witness ==
    \E m \in DOMAIN invocations :
        /\ Cardinality(StartedCalls(m)) = 2
        /\ \A t \in StartedCalls(m) : task[t].pc = "done" /\ task[t].deps # {}
        /\ invocations[m] = 1

\* The calls that hold the cache lock or are inside its with block.
Writers == { t \in DOMAIN task : task[t].pc = "write" }

\* C12: under any interleaving of get_direct_dependencies calls at most
\* one of them is inside the locked cache write; the cache has exactly the
\* modules of the calls that returned, each with the set its calls
\* returned; and no step removes a cache entry or changes its set.
C12_CacheWritesExclusiveAndStable ==
    /\ [](/\ Cardinality(cache_lock) <= 1
          /\ Writers = cache_lock
          /\ DOMAIN deps_cache = { task[t].module : t \in { u \in DOMAIN task : task[u].pc = "done" } }
          /\ \A t \in DOMAIN task :
                task[t].pc = "done" => deps_cache[task[t].module] = task[t].deps)
    /\ [][\A m \in DOMAIN deps_cache :
            m \in DOMAIN deps_cache' /\ deps_cache'[m] = deps_cache[m]]_vars

\* Two calls raced on one module: both ran modinfo and both stored a
\* non-empty set for it.
C12_Witness ==
    \E m \in DOMAIN deps_cache :
        /\ invocations[m] = 2
        /\ deps_cache[m] # {}
        /\ \A t \in DOMAIN task : task[t].pc = "done"

\* C13: once build_dependency_graph has returned, no step of
\* get_all_dependencies or of the serialization adds a key to the graph,
\* removes one or changes the set stored under one, also when the
\* traversal meets an identifier that has no entry.
C13_GraphReadOnlyAfterBuild ==
    [][BuildReturned => dependency_graph' = dependency_graph]_vars

\* The identifiers reached from the set S by following the entries of g;
\* an identifier without an entry leads nowhere.
RECURSIVE EntriesFrom(_, _)
EntriesFrom(g, S) ==
    LET T == S \cup UNION { g[x] : x \in S \cap DOMAIN g }
    IN  IF T = S THEN S ELSE EntriesFrom(g, T)

\* The identifiers in the direct-dependency sets that have no entry.
Dangling(g) == UNION { g[m] : m \in DOMAIN g } \ DOMAIN g

\* C16: when a traversal meets a dependency that has no entry in the
\* graph it does not fail: a next step is always possible until the
\* manifest is returned, and every closure returned is what the entries of
\* the graph give, the identifier without entry contributing nothing
\* beyond itself.
C16_MissingEntryContributesNothing ==
    /\ pc = "serialize" => SerializerCanStep
    /\ \A m \in DOMAIN closures :
          closures[m] = EntriesFrom(dependency_graph,
                                    UNION { dependency_graph[x] : x \in {m} \cap DOMAIN dependency_graph })
    /\ pc = "done" => DOMAIN closures = get_module_files

\* The manifest was returned although a module's closure reached, besides
\* other modules, the file that has no entry in the graph built.
C16_Witness ==
    /\ pc = "done"
    /\ \E m \in DOMAIN closures :
          /\ m # LateFile
          /\ LateFile \in closures[m]
          /\ Cardinality(closures[m]) >= 2
    /\ \E m \in DOMAIN task : LateFile \in task[m].deps
    /\ LateFile \notin DOMAIN task

\* C14: whenever generate_modules_dep returns, the manifest is the text
\* the directory and the modinfo answers determine, so two analyzers on
\* the same directory return the same text; and a later call on the same
\* analyzer, which finds every module in the cache, returns the very text
\* the call before it returned.
C14_RepeatedRunSameManifest ==
    [][(pc = "serialize" /\ pc' = "done") =>
          /\ manifest' = ExpectedManifest
          /\ run > 1 => manifest' = manifest]_vars

\* The second generate_modules_dep call on an analyzer has returned a
\* manifest with a dependency on it, every task of its build answered from
\* the cache.
C14_Witness ==
    /\ pc = "done"
    /\ run = 2
    /\ \A m \in DOMAIN task : invocations[m] = 1
    /\ \E i \in 1..Len(ManifestLines) : Len(LineDeps(ManifestLines[i])) >= 1

\* C15: the manifest returned has one line for every discovered module
\* and no other line.  The line of module m starts with '/lib/modules/m:';
\* nothing follows when m's closure is empty, else a space and the
\* '/lib/modules/'-prefixed members of the closure, each once, with single
\* spaces between them.  The lines are separated by single newlines and no
\* newline ends the text.
C15_ManifestFormat ==
    pc = "done" =>
        /\ Len(ManifestLines) = Cardinality(get_module_files)
        /\ \A m \in get_module_files :
              Cardinality({ i \in 1..Len(ManifestLines) :
                              LineTokens(ManifestLines[i])[1] = LibModules \o m \o << ":" >> }) = 1
        /\ \A i \in 1..Len(ManifestLines) :
              LET toks == LineTokens(ManifestLines[i])
                  m == LineModule(ManifestLines[i])
              IN  /\ m \in get_module_files
                  /\ toks[1] = LibModules \o m \o << ":" >>
                  /\ Len(toks) = 1 + Cardinality(closures[m])
                  /\ { toks[j] : j \in 2..Len(toks) } = { LibModules \o d : d \in closures[m] }
        /\ manifest[Len(manifest)] # "\n"

\* A manifest was returned in which one module has an empty closure and
\* another a closure of two or more modules.
C15_Witness ==
    /\ pc = "done"
    /\ \E m \in DOMAIN closures :
          /\ closures[m] = {}
          /\ (LibModules \o m \o << ":" >>) \in Range(ManifestLines)
    /\ \E m \in DOMAIN closures : Cardinality(closures[m]) >= 2

\* C17: within one top-level traversal the visited set only grows; the
\* modules for which the traversal started the line-73 loop are exactly
\* the visited ones, each once, so the calls of a traversal are at most
\* the identifiers of the graph; and when the top-level call is about to
\* return, every module reachable from its module, the ones on cycles
\* included, has been expanded.
C17_ExpandedAtMostOnce ==
    /\ [](/\ DOMAIN expansions = visited
          /\ \A m \in DOMAIN expansions : expansions[m] = 1
          /\ Cardinality(DOMAIN expansions) <= Cardinality(GraphNodes(dependency_graph))
          /\ CanReturnTop =>
                visited = {Top.module} \cup Reachable(dependency_graph, Top.module))
    /\ [][(stack # << >> /\ stack' # << >>) => visited \subseteq visited']_vars

\* A top-level call is about to return after a traversal of three modules
\* that all lie on cycles.
C17_Witness ==
    /\ CanReturnTop
    /\ Cardinality(visited) >= 3
    /\ \A m \in visited : OnCycle(dependency_graph, m)

\* C18: at every point, a module with an entry in the graph has an entry
\* in the cache holding the same set (the cache is written before the
\* graph); and once build_dependency_graph has returned, every discovered
\* module has both entries.
C18_CacheAgreesWithGraph ==
    /\ \A m \in DOMAIN dependency_graph :
          /\ m \in DOMAIN deps_cache
          /\ deps_cache[m] = dependency_graph[m]
    /\ BuildReturned =>
          \A m \in get_module_files :
              m \in DOMAIN deps_cache /\ m \in DOMAIN dependency_graph

\* In the middle of a build with two workers: one module's non-empty set
\* is in the cache and in the graph, the other module's task has run
\* modinfo and waits for the cache lock.
C18_Witness ==
    /\ pc = "collect"
    /\ max_workers = 2
    /\ \E m \in DOMAIN dependency_graph : dependency_graph[m] # {}
    /\ \E m \in DOMAIN task : task[m].pc = "lock" /\ m \notin DOMAIN deps_cache

\* C19: the manifest is transitively closed across its lines: when D is
\* a dependency on M's line, every dependency on D's line is on M's line
\* or is M.  The set a top-level call returns is the set reachable from
\* its module in the graph, whatever modules were processed before it, and
\* every top-level call starts from a visited set holding its module alone.
C19_ManifestTransitivelyClosed ==
    /\ [](pc = "done" =>
            \A i, j \in 1..Len(ManifestLines) :
                LineModule(ManifestLines[j]) \in Range(LineDeps(ManifestLines[i])) =>
                    Range(LineDeps(ManifestLines[j])) \subseteq
                        Range(LineDeps(ManifestLines[i])) \cup { LineModule(ManifestLines[i]) })
    /\ [](\A m \in DOMAIN closures : closures[m] = Reachable(dependency_graph, m))
    /\ [][(stack = << >> /\ stack' # << >>) => visited' = { stack'[1].module }]_vars

\* A manifest was returned in which a line lists a module of an earlier
\* line, which itself lists a further module.
C19_Witness ==
    /\ pc = "done"
    /\ \E i, j \in 1..Len(ManifestLines) :
          /\ j < i
          /\ LineModule(ManifestLines[j]) \in Range(LineDeps(ManifestLines[i]))
          /\ \E d \in Range(LineDeps(ManifestLines[j])) :
                d \notin { LineModule(ManifestLines[i]), LineModule(ManifestLines[j]) }

=============================================================================
